---- MODULE Spec2Model ----
(***************************************************************************)
(* A model of RegexEngine (src/main.py): the on-demand pattern parser, the *)
(* generator-based backtracking matcher match_inner with its capture table *)
(* and the driver has_match.                                               *)
(*                                                                         *)
(* Strings are sequences of one-character strings.  A slice of the pattern *)
(* is kept as the pair lo..hi of its first and last index in self.pattern  *)
(* (1-based, empty when hi = lo - 1), a suffix of the input line as the    *)
(* number pos of characters already consumed, and a match length as the    *)
(* input position end at which the match stops.                            *)
(*                                                                         *)
(* The generators are run by an explicit machine.  stack holds the live    *)
(* generator activations in creation order (the newest one is exhausted    *)
(* first), ctl says what happens next, and a continuation K lists the loop *)
(* bodies that consume a yielded value, innermost consumer first.          *)
(***************************************************************************)
EXTENDS Integers, Sequences, FiniteSets, TLC

\* A Python str, written as a TLA+ string.
Chars(s) == [i \in 1..Len(s) |-> SubSeq(s, i, i)]

\* The unset value of a capture slot; no captured text equals it.
None == <<"None">>

-----------------------------------------------------------------------------
(* Characters *)

\* The characters with code points 35 ("#") to 95 ("_").
AsciiLow ==
    Chars("#$%&'") \o <<"(", ")", "*">> \o
    Chars("+,-./0123456789:;<=>?@ABCDEFGHIJKLMNOPQRSTUVWXYZ[\\]^_")

\* The characters with code points 97 ("a") to 126 ("~").
AsciiHigh == Chars("abcdefghijklmnopqrstuvwxyz{|}~")

\* The code point of a character.
Ord(c) ==
    IF \E i \in 1..Len(AsciiHigh) : AsciiHigh[i] = c
    THEN 96 + (CHOOSE i \in 1..Len(AsciiHigh) : AsciiHigh[i] = c)
    ELSE 34 + (CHOOSE i \in 1..Len(AsciiLow) : AsciiLow[i] = c)

Digits == {AsciiLow[i] : i \in 14..23}

Letters == {AsciiLow[i] : i \in 31..56} \cup {AsciiHigh[i] : i \in 1..26}

is_digit(c) == c \in Digits

is_alpha(c) == c \in Letters

is_underscore(c) == c = "_"

\* int(esc) for a digit character.
DigitValue(c) == Ord(c) - Ord("0")

RECURSIVE ClassScan(_, _, _)
\* The loop of match_class from index i (1-based) on: whether some item of
\* the class body matches c.
ClassScan(c, class_str, i) ==
    IF i > Len(class_str) THEN FALSE
    ELSE IF i + 2 <= Len(class_str) /\ class_str[i + 1] = "-"
         THEN IF Ord(class_str[i]) <= Ord(c) /\ Ord(c) <= Ord(class_str[i + 2])
              THEN TRUE
              ELSE ClassScan(c, class_str, i + 3)
         ELSE IF class_str[i] = c
              THEN TRUE
              ELSE ClassScan(c, class_str, i + 1)

match_class(c, class_str, negated) ==
    LET matched == ClassScan(c, class_str, 1)
    IN  IF negated THEN ~matched ELSE matched

-----------------------------------------------------------------------------
(* Pattern parsing *)

RECURSIVE CountFrom(_, _)
\* The loop of _count_capture_groups from index i on.
CountFrom(pattern, i) ==
    IF i > Len(pattern) THEN 0
    ELSE IF pattern[i] = "\\" THEN CountFrom(pattern, i + 2)
    ELSE IF pattern[i] = "(" THEN 1 + CountFrom(pattern, i + 1)
    ELSE CountFrom(pattern, i + 1)

_count_capture_groups(pattern) == CountFrom(pattern, 1)

\* A parsed expression.  err is set when the parser raises RuntimeError.
ParseError ==
    [err |-> TRUE, type |-> "error", ch |-> "", ref |-> 0, cls |-> <<>>,
     len |-> 0, negated |-> FALSE, alts |-> <<>>]

Atom(type, ch, ref, cls, len, negated) ==
    [err |-> FALSE, type |-> type, ch |-> ch, ref |-> ref, cls |-> cls,
     len |-> len, negated |-> negated, alts |-> <<>>]

RECURSIVE BracketScan(_, _)
\* The while loop of parse_single_atom: the index of the first "]" at or
\* after p, or Len(pattern) + 1 when there is none.
BracketScan(pattern, p) ==
    IF p <= Len(pattern) /\ pattern[p] # "]"
    THEN BracketScan(pattern, p + 1)
    ELSE p

\* parse_single_atom on a non-empty pattern slice.
parse_single_atom(pattern) ==
    IF pattern[1] = "\\"
    THEN IF Len(pattern) < 2
         THEN ParseError
         ELSE LET esc == pattern[2]
              IN  IF is_digit(esc)
                  THEN Atom("backreference", "", DigitValue(esc), <<>>, 2, FALSE)
                  ELSE IF esc \in {"d", "w"}
                       THEN Atom("escape", esc, 0, <<>>, 2, FALSE)
                       ELSE Atom("literal", esc, 0, <<>>, 2, FALSE)
    ELSE IF pattern[1] = "["
    THEN LET negated == Len(pattern) >= 2 /\ pattern[2] = "^"
             start == IF negated THEN 3 ELSE 2
             p == BracketScan(pattern, start)
         IN  IF p > Len(pattern)
             THEN ParseError
             ELSE Atom("class", "", 0, SubSeq(pattern, start, p - 1), p, negated)
    ELSE IF pattern[1] = "."
    THEN Atom("wildcard", ".", 0, <<>>, 1, FALSE)
    ELSE Atom("literal", pattern[1], 0, <<>>, 1, FALSE)

RECURSIVE ParenScan(_, _, _)
\* The for loop of find_matching_paren from index i on with open_parens
\* groups open: the index of the closing parenthesis, 0 when it raises.
ParenScan(pattern, i, open_parens) ==
    IF i > Len(pattern) THEN 0
    ELSE LET n == IF pattern[i] = "(" THEN open_parens + 1
                  ELSE IF pattern[i] = ")" THEN open_parens - 1
                  ELSE open_parens
         IN  IF n = 0 THEN i ELSE ParenScan(pattern, i + 1, n)

find_matching_paren(pattern, start_index) == ParenScan(pattern, start_index + 1, 1)

RECURSIVE AltScan(_, _, _, _, _)
\* The for loop of split_alternatives from index i on.
AltScan(group_content, i, paren_level, current_alternative_start, alternatives) ==
    IF i > Len(group_content)
    THEN Append(alternatives, <<current_alternative_start, Len(group_content)>>)
    ELSE IF group_content[i] = "("
    THEN AltScan(group_content, i + 1, paren_level + 1,
                 current_alternative_start, alternatives)
    ELSE IF group_content[i] = ")"
    THEN AltScan(group_content, i + 1, paren_level - 1,
                 current_alternative_start, alternatives)
    ELSE IF group_content[i] = "|" /\ paren_level = 0
    THEN AltScan(group_content, i + 1, paren_level, i + 1,
                 Append(alternatives, <<current_alternative_start, i - 1>>))
    ELSE AltScan(group_content, i + 1, paren_level,
                 current_alternative_start, alternatives)

\* split_alternatives: each alternative as the pair of its first and last
\* index in group_content.
split_alternatives(group_content) == AltScan(group_content, 1, 0, 1, <<>>)

\* parse_expression on a non-empty pattern slice.  The alternatives of a
\* group are index pairs into the slice (the group content starts at 2).
parse_expression(pattern) ==
    IF pattern[1] = "("
    THEN LET end_paren_idx == find_matching_paren(pattern, 1)
         IN  IF end_paren_idx = 0
             THEN ParseError
             ELSE LET group_content == SubSeq(pattern, 2, end_paren_idx - 1)
                      alternatives == split_alternatives(group_content)
                  IN  [err |-> FALSE, type |-> "group", ch |-> "", ref |-> 0,
                       cls |-> <<>>, len |-> end_paren_idx, negated |-> FALSE,
                       alts |-> [k \in 1..Len(alternatives) |->
                                   <<alternatives[k][1] + 1, alternatives[k][2] + 1>>]]
    ELSE parse_single_atom(pattern)

\* The predicate get_match_fn returns, applied to the character c.
match_fn(expr, c) ==
    IF expr.type = "escape"
    THEN IF expr.ch = "d"
         THEN is_digit(c)
         ELSE is_alpha(c) \/ is_digit(c) \/ is_underscore(c)
    ELSE IF expr.type = "literal" THEN c = expr.ch
    ELSE IF expr.type = "class" THEN match_class(c, expr.cls, expr.negated)
    ELSE TRUE

\* A quantifier test that leaves out the star.
plus_and_question == {"+", "?"}

\* The characters match_inner takes for a quantifier.
QuantifierChars == {"+", "?", "*"}

\* The quantifier match_inner finds after an expression of length expr_len,
\* "" for none.

quantifier_of(pattern, expr_len) ==
    IF expr_len < Len(pattern) /\ pattern[expr_len + 1] \in QuantifierChars
    THEN pattern[expr_len + 1]
    ELSE ""

\* A strip_anchors that sets the end flag and leaves the "$" in the pattern.
keeps_dollar(pattern) ==
    LET start_anchored == Len(pattern) >= 1 /\ pattern[1] = "^"
        end_anchored == Len(pattern) >= 1 /\ pattern[Len(pattern)] = "$"
    IN  [start_anchored |-> start_anchored, end_anchored |-> end_anchored,
         lo |-> IF start_anchored THEN 2 ELSE 1, hi |-> Len(pattern)]

\* strip_anchors: the flags and the inner pattern as a slice lo..hi.
strip_anchors(pattern) ==
    LET start_anchored == Len(pattern) >= 1 /\ pattern[1] = "^"
        end_anchored == Len(pattern) >= 1 /\ pattern[Len(pattern)] = "$"
    IN  [start_anchored |-> start_anchored, end_anchored |-> end_anchored,
         lo |-> IF start_anchored THEN 2 ELSE 1,
         hi |-> IF end_anchored THEN Len(pattern) - 1 ELSE Len(pattern)]

-----------------------------------------------------------------------------
(* The matcher as a machine over a configuration c:                        *)
(*   pattern, num_capture_groups, captures   the fields of the engine      *)
(*   input      the input line of the running match_pattern call           *)
(*   ctl        what happens next                                          *)
(*   stack      the live activations, has_match at the bottom              *)
(*   verdict    how the last match_pattern call ended                      *)
(*   path       the capture table of the current search path: what the     *)
(*              groups matched on this path have written, kept beside      *)
(*              self.captures and taken back at every backtrack point      *)

Idle == [op |-> "idle"]

\* match_inner(input[pos:], pattern[lo..hi], gc) is called; K consumes what
\* it yields.
CallInner(pos, lo, hi, gc, K) ==
    [op |-> "inner", pos |-> pos, lo |-> lo, hi |-> hi, gc |-> gc, K |-> K]

\* match_group_content_once(input[start:], grp_counter) is called for the
\* group whose "(" is at index glo and whose number is g.
CallOnce(start, grp_counter, alts, g, glo, K) ==
    [op |-> "once", start |-> start, grp_counter |-> grp_counter, alts |-> alts,
     g |-> g, glo |-> glo, K |-> K]

\* match_plus_group(input[start:], grp_counter) is called; reps counts the
\* repetitions made on this path, this one included, and root is the stack
\* index of the match_inner activation that parsed the group.
CallPlus(start, grp_counter, alts, g, glo, root, K, reps) ==
    [op |-> "plus", start |-> start, grp_counter |-> grp_counter, alts |-> alts,
     g |-> g, glo |-> glo, root |-> root, K |-> K, reps |-> reps]

\* A generator yields the match that stops at input position end.
Yield(end, counter, K) == [op |-> "yield", end |-> end, counter |-> counter, K |-> K]

\* The newest live activation resumes.  kind and entry tell which generator
\* has just been exhausted and the capture table it was entered with
\* ("result": none, has_match asks for the next result); outer tells that
\* has_match created it.
Ret(kind, entry, outer) == [op |-> "ret", kind |-> kind, entry |-> entry, outer |-> outer]

\* The consumers of a yielded value: line 226 of match_group_content_once,
\* the loops over the rest of the pattern, the loop body of
\* match_plus_group, and has_match.
KCap(g, start) == [k |-> "cap", g |-> g, start |-> start]

KRest(lo, hi) == [k |-> "rest", lo |-> lo, hi |-> hi]

KIter(grp_counter, alts, g, glo, root, reps, start) ==
    [k |-> "iter", grp_counter |-> grp_counter, alts |-> alts, g |-> g,
     glo |-> glo, root |-> root, reps |-> reps, start |-> start]

KAccept == [k |-> "accept"]

\* No result handed on yet by a group quantified with "+".
NoReps == -1

\* An activation of match_inner on pattern[elo..hi] whose rest_of_pattern is
\* pattern[lo..hi].  st is where it stands: "base" (it has yielded for the
\* empty pattern), "tail" (its last loop is running), "reps" (the loop over
\* curr_reps), "opt" (a group with "?" on its first path).  reps is the
\* number of repetitions of the quantified expression on the path being
\* explored, todo the numbers still to try, max the largest one possible;
\* yielded tells whether the activation has yielded a result yet.
InnerFrame(st, entry, quant, group, reps, todo, max, alts, elo, pos, lo, hi, gc, K) ==
    [kind |-> "inner", st |-> st, entry |-> entry, quant |-> quant,
     group |-> group, reps |-> reps, todo |-> todo, max |-> max, alts |-> alts,
     elo |-> elo, pos |-> pos, lo |-> lo, hi |-> hi, gc |-> gc, K |-> K,
     yielded |-> FALSE]

\* Every activation remembers the table of the path it was created on.
Push(c, frame, ctl) ==
    [c EXCEPT !.stack = Append(@, frame @@ [path |-> c.path]), !.ctl = ctl]

Pop(c, ctl) == [c EXCEPT !.stack = SubSeq(@, 1, Len(@) - 1), !.ctl = ctl]

\* The call ends: a verdict, or an exception that leaves match_pattern.
Finish(c, v) == [c EXCEPT !.ctl = Idle, !.stack = <<>>, !.verdict = v]

\* input_line.startswith(captured_text)
startswith(input_line, captured_text) ==
    /\ Len(captured_text) <= Len(input_line)
    /\ SubSeq(input_line, 1, Len(captured_text)) = captured_text

RECURSIVE CountReps(_, _, _)
\* The while loops that extend reps while the next character matches.
CountReps(expr, input_line, reps) ==
    IF reps < Len(input_line) /\ match_fn(expr, input_line[reps + 1])
    THEN CountReps(expr, input_line, reps + 1)
    ELSE reps

\* The repetition counts from the smallest up.
ascending(reps, last) == [k \in 1..(reps - last + 1) |-> last + k - 1]

\* range(reps, last - 1, -1): the repetition counts in the order tried.
descending(reps, last) == [k \in 1..(reps - last + 1) |-> reps - k + 1]

\* The group branch of match_inner.
GroupDispatch(c, expr, quantifier, rest_lo) ==
    LET t == c.ctl
        this_group_num == t.gc + 1
        root == Len(c.stack) + 1
        alternatives == [k \in 1..Len(expr.alts) |->
                           <<t.lo - 1 + expr.alts[k][1], t.lo - 1 + expr.alts[k][2]>>]
        KThen == <<KRest(rest_lo, t.hi)>> \o t.K
        frame(st, reps) ==
            InnerFrame(st, c.captures, quantifier, TRUE, reps, <<>>, 1, alternatives,
                       t.lo, t.pos, rest_lo, t.hi, t.gc, t.K)
    IN  IF quantifier = ""
        THEN Push(c, frame("tail", 1),
                  CallOnce(t.pos, this_group_num, alternatives, this_group_num, t.lo,
                           KThen))
        ELSE IF quantifier = "?"
        THEN Push(c, frame("opt", 1),
                  CallOnce(t.pos, this_group_num, alternatives, this_group_num, t.lo,
                           KThen))
        ELSE IF quantifier = "+"
        THEN Push(c, frame("tail", NoReps),
                  CallPlus(t.pos, this_group_num, alternatives, this_group_num, t.lo,
                           root, KThen, 1))
        ELSE [c EXCEPT !.ctl = Ret("inner", c.captures, Len(c.stack) = 1)]

\* The backreference branch of match_inner.  captures[ref_num - 1] with
\* ref_num = 0 is Python's captures[-1]: the last slot, IndexError when the
\* table is empty.
BackrefDispatch(c, expr, rest_lo) ==
    LET t == c.ctl
        ref_num == expr.ref
        input_line == SubSeq(c.input, t.pos + 1, Len(c.input))
        slot == IF ref_num = 0 THEN Len(c.captures) ELSE ref_num
        return == [c EXCEPT !.ctl = Ret("inner", c.captures, Len(c.stack) = 1)]
    IN  IF Len(c.captures) < ref_num
        THEN return
        ELSE IF slot = 0
        THEN Finish(c, "IndexError")
        ELSE IF c.captures[slot] = None
        THEN return
        ELSE LET captured_text == c.captures[slot]
             IN  IF startswith(input_line, captured_text)
                 THEN Push(c, InnerFrame("tail", c.captures, "", FALSE, 0, <<>>, 0, <<>>,
                                         t.lo, t.pos, rest_lo, t.hi, t.gc, t.K),
                           CallInner(t.pos + Len(captured_text), rest_lo, t.hi, t.gc, t.K))
                 ELSE return

\* The atom branch of match_inner.  The two paths of "?" are the counts 1
\* and 0, the first only when the character matches.
AtomDispatch(c, expr, quantifier, rest_lo) ==
    LET t == c.ctl
        input_line == SubSeq(c.input, t.pos + 1, Len(c.input))
        first == input_line # <<>> /\ match_fn(expr, input_line[1])
        return == [c EXCEPT !.ctl = Ret("inner", c.captures, Len(c.stack) = 1)]
        loop(st, order, max) ==
            Push(c, InnerFrame(st, c.captures, quantifier, FALSE, order[1], Tail(order),
                               max, <<>>, t.lo, t.pos, rest_lo, t.hi, t.gc, t.K),
                 CallInner(t.pos + order[1], rest_lo, t.hi, t.gc, t.K))
    IN  IF quantifier = ""
        THEN IF first THEN loop("tail", <<1>>, 1) ELSE return
        ELSE IF quantifier = "+"
        THEN IF ~first
             THEN return
             ELSE LET reps == CountReps(expr, input_line, 1)
                  IN  loop("reps", descending(reps, 1), reps)
        ELSE IF quantifier = "?"
        THEN LET reps == IF first THEN 1 ELSE 0
             IN  loop("reps", descending(reps, 0), reps)
        ELSE LET reps == CountReps(expr, input_line, 0)
             IN  loop("reps", descending(reps, 0), reps)

\* match_inner is entered: the base case, or parse the next expression and
\* dispatch on it.
EnterInner(c) ==
    LET t == c.ctl
        pattern == SubSeq(c.pattern, t.lo, t.hi)
    IN  IF pattern = <<>>
        THEN Push(c, InnerFrame("base", c.captures, "", FALSE, 0, <<>>, 0, <<>>, t.lo,
                                t.pos, t.lo, t.hi, t.gc, t.K),
                  Yield(t.pos, t.gc, t.K))
        ELSE LET expr == parse_expression(pattern)
                 quantifier == IF expr.err THEN "" ELSE quantifier_of(pattern, expr.len)
                 rest_lo == t.lo + expr.len + (IF quantifier # "" THEN 1 ELSE 0)
             IN  IF expr.err THEN Finish(c, "RuntimeError")
                 ELSE IF expr.type = "group" THEN GroupDispatch(c, expr, quantifier, rest_lo)
                 ELSE IF expr.type = "backreference" THEN BackrefDispatch(c, expr, rest_lo)
                 ELSE AtomDispatch(c, expr, quantifier, rest_lo)

\* match_group_content_once is entered: the first alternative, with the
\* snapshot captures_before_alt taken.
EnterOnce(c) ==
    LET t == c.ctl
    IN  Push(c,
             [kind |-> "once", alts |-> t.alts, idx |-> 1, g |-> t.g, glo |-> t.glo,
              start |-> t.start, grp_counter |-> t.grp_counter,
              captures_before_alt |-> c.captures, K |-> t.K, entry |-> c.captures],
             CallInner(t.start, t.alts[1][1], t.alts[1][2], t.grp_counter,
                       <<KCap(t.g, t.start)>> \o t.K))

\* A live activation of match_plus_group that was entered exactly as the
\* call in ctl is: the same group, input position, consumers and capture
\* table.  The matcher is deterministic, so the call repeats what that
\* activation did down to this call, again and again.
SamePlusCall(c) ==
    \E i \in 1..Len(c.stack) :
        LET f == c.stack[i]
        IN  /\ f.kind = "plus"
            /\ f.glo = c.ctl.glo
            /\ f.g = c.ctl.g
            /\ f.start = c.ctl.start
            /\ f.K = c.ctl.K
            /\ f.entry = c.captures

\* match_plus_group is entered.  Unbounded recursion ends in Python's
\* RecursionError.
EnterPlus(c) ==
    LET t == c.ctl
    IN  IF SamePlusCall(c)
        THEN Finish(c, "RecursionError")
        ELSE Push(c,
                  [kind |-> "plus", start |-> t.start, g |-> t.g, glo |-> t.glo,
                   K |-> t.K, entry |-> c.captures, reps |-> t.reps],
                  CallOnce(t.start, t.grp_counter, t.alts, t.g, t.glo,
                           <<KIter(t.grp_counter, t.alts, t.g, t.glo, t.root, t.reps,
                                   t.start)>>
                               \o t.K))

\* A value is yielded to the consumers K: every match_inner activation whose
\* consumers they are passes it on as a result of its own.
MarkYielded(stack, K) ==
    [i \in 1..Len(stack) |->
        IF stack[i].kind = "inner" /\ stack[i].K = K
        THEN [stack[i] EXCEPT !.yielded = TRUE]
        ELSE stack[i]]

\* A write that leaves a slot alone once it is set.
write_first(captures, g, text) ==
    IF captures[g] = None THEN [captures EXCEPT ![g] = text] ELSE captures

\* self.captures[this_group_num - 1] = inp[:alt_len]
write_slot(captures, g, text) == [captures EXCEPT ![g] = text]

\* The innermost consumer takes the yielded value.
Deliver(d) ==
    LET c == [d EXCEPT !.stack = MarkYielded(@, d.ctl.K)]
        t == c.ctl
        head == t.K[1]
        tail == Tail(t.K)
    IN  IF head.k = "cap"
        THEN IF head.g > Len(c.captures)
             THEN Finish(c, "IndexError")
             ELSE [c EXCEPT !.captures =
                                write_slot(@, head.g, SubSeq(c.input, head.start + 1, t.end)),
                            !.path[head.g] = SubSeq(c.input, head.start + 1, t.end),
                            !.ctl = Yield(t.end, t.counter, tail)]
        ELSE IF head.k = "rest"
        THEN [c EXCEPT !.ctl = CallInner(t.end, head.lo, head.hi, t.counter, tail)]
        ELSE IF head.k = "iter"
        THEN Push(c,
                  [kind |-> "after", st |-> "more", captures_after_one |-> c.captures,
                   end |-> t.end, one_counter |-> t.counter, K |-> tail,
                   root |-> head.root, reps |-> head.reps, g |-> head.g,
                   start |-> head.start],
                  CallPlus(t.end, head.grp_counter, head.alts, head.g, head.glo,
                           head.root, tail, head.reps + 1))
        ELSE IF c.stack[1].end_anchored /\ t.end # Len(c.input)
        THEN [c EXCEPT !.stack[1].results = @ + 1,
                       !.ctl = Ret("result", c.captures, FALSE)]
        ELSE Finish(c, "True")

\* No restore: the table stays as the alternative left it.
keeps_captures(captures, captures_before_alt) == captures

\* self.captures = captures_before_alt, after an alternative is exhausted.
restore_before_alt(captures, captures_before_alt) == captures_before_alt

\* self.captures = captures_after_one, after the longer repetitions.
restore_after_one(captures, captures_after_one) == captures_after_one

\* A driver that tries offset 0 only.
only_offset_zero(input_line) == 0

\* A driver whose loop is range(len(input_line)).
short_range(input_line) == Len(input_line) - 1

\* The last starting offset of the unanchored loop, range(len(input_line) + 1).
last_start(input_line) == Len(input_line)

\* The newest live activation resumes: its callee is exhausted, or the
\* consumers of its last yield have come back for the next value.
Resume(c) ==
    LET n == Len(c.stack)
        f == c.stack[n]
    IN  IF f.kind = "inner"
        THEN IF f.st = "reps" /\ f.todo # <<>>
             THEN [c EXCEPT !.stack[n].reps = Head(f.todo),
                            !.stack[n].todo = Tail(f.todo),
                            !.path = f.path,
                            !.ctl = CallInner(f.pos + Head(f.todo), f.lo, f.hi, f.gc, f.K)]
             ELSE IF f.st = "opt"
             THEN [c EXCEPT !.stack[n].st = "tail", !.stack[n].reps = 0,
                            !.path = f.path,
                            !.ctl = CallInner(f.pos, f.lo, f.hi, f.gc, f.K)]
             ELSE Pop(c, Ret("inner", f.entry, n = 2))
        ELSE IF f.kind = "once"
        THEN LET restored == restore_before_alt(c.captures, f.captures_before_alt)
             IN  IF f.idx < Len(f.alts)
                 THEN [c EXCEPT !.captures = restored,
                                !.path = f.path,
                                !.stack[n].idx = f.idx + 1,
                                !.stack[n].captures_before_alt = restored,
                                !.ctl = CallInner(f.start, f.alts[f.idx + 1][1],
                                                  f.alts[f.idx + 1][2], f.grp_counter,
                                                  <<KCap(f.g, f.start)>> \o f.K)]
                 ELSE Pop([c EXCEPT !.captures = restored], Ret("once", f.entry, FALSE))
        ELSE IF f.kind = "plus"
        THEN Pop(c, Ret("plus", f.entry, FALSE))
        ELSE IF f.kind = "after"
        THEN IF f.st = "more"
             THEN [c EXCEPT !.captures = restore_after_one(c.captures, f.captures_after_one),
                            !.path = f.path,
                            !.stack[n].st = "stop",
                            !.stack[f.root].reps = f.reps,
                            !.ctl = Yield(f.end, f.one_counter, f.K)]
             ELSE Pop(c, Ret("after", f.captures_after_one, FALSE))
        ELSE IF ~f.start_anchored /\ f.i < last_start(c.input)
        THEN [c EXCEPT !.stack[n].i = f.i + 1, !.stack[n].results = 0,
                       !.path = f.path,
                       !.ctl = CallInner(f.i + 1, f.lo, f.hi, 0, <<KAccept>>)]
        ELSE Finish(c, "False")

\* A has_match that allocates the table only when it has not the right size.
allocate_once(captures, num_capture_groups) ==
    IF Len(captures) = num_capture_groups
    THEN captures
    ELSE [k \in 1..num_capture_groups |-> None]

\* self.captures = [None] * self.num_capture_groups
allocate_captures(captures, num_capture_groups) ==
    [k \in 1..num_capture_groups |-> None]

\* has_match begins: the anchors are stripped, the capture table is
\* allocated all-unset and the first generator is created at offset 0.
\* results counts the results the current generator has handed to has_match.
Begin(c, input_line) ==
    LET a == strip_anchors(c.pattern)
        unset == [k \in 1..c.num_capture_groups |-> None]
        started == [c EXCEPT !.input = input_line,
                             !.captures = allocate_captures(@, c.num_capture_groups),
                             !.path = unset,
                             !.verdict = "running",
                             !.stack = <<[kind |-> "has_match", i |-> 0, results |-> 0,
                                          start_anchored |-> a.start_anchored,
                                          end_anchored |-> a.end_anchored,
                                          lo |-> a.lo, hi |-> a.hi, path |-> unset]>>,
                             !.ctl = CallInner(0, a.lo, a.hi, 0, <<KAccept>>)]
    IN  IF ~a.start_anchored /\ last_start(input_line) < 0
        THEN Finish(started, "False")
        ELSE started

\* One step of a running call.
Step(c) ==
    IF c.ctl.op = "inner" THEN EnterInner(c)
    ELSE IF c.ctl.op = "once" THEN EnterOnce(c)
    ELSE IF c.ctl.op = "plus" THEN EnterPlus(c)
    ELSE IF c.ctl.op = "yield" THEN Deliver(c)
    ELSE Resume(c)

\* No call of the model takes more steps than this.
MaxSteps == 4096

RECURSIVE Iterate(_, _)
\* Up to n steps of a running call, n >= 1; it stops when the call ends.
\* The steps are split in halves to keep the evaluation shallow.
Iterate(c, n) ==
    IF c.ctl.op = "idle" THEN c
    ELSE IF n = 1 THEN Step(c)
    ELSE LET half == Iterate(c, n \div 2)
         IN  IF half.ctl.op = "idle" THEN half ELSE Iterate(half, n - (n \div 2))

\* A running call taken to its end.
Run(c) == Iterate(c, MaxSteps)

\* RegexEngine(pattern): the engine after __init__.
NewEngine(p) ==
    [pattern |-> p, num_capture_groups |-> _count_capture_groups(p), captures |-> <<>>,
     input |-> <<>>, ctl |-> Idle, stack |-> <<>>, verdict |-> "none", path |-> <<>>]

\* match_pattern(input_line) on a fresh engine for pattern p.
MatchOnFresh(p, input_line) == Run(Begin(NewEngine(p), input_line)).verdict

-----------------------------------------------------------------------------
(* The engines and the input lines of the model.                           *)

\* The longest input line drawn from InputAlphabet.
MaxInputLen == 3

\* The longest pattern made of ordinary characters only.
MaxLiteralLen == 2

InputAlphabet == {"a", "b"}

\* Characters with no meaning to the parser.
LiteralAlphabet == {"a", "b", "]"}

RECURSIVE Strings(_, _)
\* The strings over alphabet A of length at most n.
Strings(A, n) ==
    IF n = 0 THEN {<<>>}
    ELSE LET S == Strings(A, n - 1)
         IN  S \cup {Append(s, x) : s \in S, x \in A}

GeneralInputs == Strings(InputAlphabet, MaxInputLen)

LiteralPatterns == Strings(LiteralAlphabet, MaxLiteralLen)

\* The single atoms that are given each quantifier.
AtomTexts == {"a", ".", "\\d", "\\w", "[ab]", "[^a]", "[a-b]", "\\."}

QuantifiedAtoms == {Chars(t) \o <<q>> : t \in AtomTexts, q \in {"+", "?", "*"}}

\* The patterns p of the anchored engines "^" p "$".
AnchorBodyTexts ==
    {"", "a", "ab", "a+", "a*", "a?b", ".b", "(a|b)+", "(a)\\1", "(a+)a", "(a|ab)b",
     "(a)?a", "\\1", "b("}

AnchorBodies == {Chars(t) : t \in AnchorBodyTexts}

Anchored(p) == <<"^">> \o p \o <<"$">>

\* Groups, alternatives, backreferences, quantified groups, malformed
\* patterns and single anchors.
PatternTexts ==
    {"(a+)b\\1", "(a+)a", "(a)?(b)\\2", "((a)|(b))\\3", "(a)(b)\\2", "(a)b",
     "b\\", "b[", "b(", "a\\", "[a", "(a",
     "(a|)+", "(a?)+", "(a)+", "(a)*", "(a|b)+", "(a|b)*", "(a)?", "(ab)+",
     "((a)b|\\2)", "(aa|a)+b", "(a|ab)+", "(a+)+b", "(a|b)?b", "(b|(a))+\\2",
     "a*a", "a?a", ".+b", "a+b?", "[ab]*b", "(a)\\1+",
     "(a?(\\1)?)\\2", "(a|b)+b", "((a)+b)+", "(a|b\\1)+", "(b|a)+\\1",
     "^a", "a$", "^", "$", "\\0", "(a)\\0", "(a)\\2"}

Patterns ==
    {Chars(t) : t \in PatternTexts} \cup LiteralPatterns \cup QuantifiedAtoms
        \cup {Anchored(p) : p \in AnchorBodies}

\* Input lines tried on particular patterns besides the general ones.
Scenarios ==
    {<<"(a+)b\\1", "aaabaaa">>, <<"(a+)b\\1", "aaabaa">>, <<"(a+)a", "aaaa">>,
     <<"\\d+", "1">>, <<"\\d*", "a12">>, <<"\\d?", "1">>, <<"\\w+", "_1">>,
     <<"\\.+", "a..">>, <<"\\.*", ".">>, <<"(aa|a)+b", "aaab">>}

InputsFor(p) ==
    GeneralInputs
        \cup (IF p \in LiteralPatterns THEN {p} ELSE {})
        \cup {Chars(s[2]) : s \in {x \in Scenarios : Chars(x[1]) = p}}

-----------------------------------------------------------------------------
(* The state machine: one engine, called again and again.                  *)

\* previous is a history variable: how the call before the last one ended.
VARIABLES
    pattern, num_capture_groups, captures, input, ctl, stack, verdict, path, previous

vars ==
    <<pattern, num_capture_groups, captures, input, ctl, stack, verdict, path, previous>>

\* The engine and its running call as one configuration.
Config ==
    [pattern |-> pattern, num_capture_groups |-> num_capture_groups,
     captures |-> captures, input |-> input, ctl |-> ctl, stack |-> stack,
     verdict |-> verdict, path |-> path]

\* The configuration becomes d; __init__ alone sets pattern and
\* num_capture_groups.
Becomes(d) ==
    /\ captures' = d.captures
    /\ input' = d.input
    /\ ctl' = d.ctl
    /\ stack' = d.stack
    /\ verdict' = d.verdict
    /\ path' = d.path
    /\ UNCHANGED <<pattern, num_capture_groups>>

\* RegexEngine(pattern) has been constructed.
Init ==
    \E p \in Patterns :
        /\ pattern = p
        /\ num_capture_groups = NewEngine(p).num_capture_groups
        /\ captures = NewEngine(p).captures
        /\ input = NewEngine(p).input
        /\ ctl = NewEngine(p).ctl
        /\ stack = NewEngine(p).stack
        /\ verdict = NewEngine(p).verdict
        /\ path = NewEngine(p).path
        /\ previous = "none"

\* match_pattern(input_line) is called on the idle engine; has_match sets up
\* and creates its first generator.
match_pattern(input_line) ==
    /\ ctl.op = "idle"
    /\ Becomes(Begin(Config, input_line))
    /\ previous' = verdict

\* A match_inner generator starts running.
match_inner ==
    /\ ctl.op = "inner"
    /\ Becomes(EnterInner(Config))
    /\ UNCHANGED previous

\* A match_group_content_once generator starts running.
match_group_content_once ==
    /\ ctl.op = "once"
    /\ Becomes(EnterOnce(Config))
    /\ UNCHANGED previous

\* A match_plus_group generator starts running.
match_plus_group ==
    /\ ctl.op = "plus"
    /\ Becomes(EnterPlus(Config))
    /\ UNCHANGED previous

\* The body of the for loop that iterates the yielding generator runs.
yield ==
    /\ ctl.op = "yield"
    /\ Becomes(Deliver(Config))
    /\ UNCHANGED previous

\* A for loop asks its generator for the next value.
resume ==
    /\ ctl.op = "ret"
    /\ Becomes(Resume(Config))
    /\ UNCHANGED previous

Next ==
    \/ \E input_line \in InputsFor(pattern) : match_pattern(input_line)
    \/ match_inner
    \/ match_group_content_once
    \/ match_plus_group
    \/ yield
    \/ resume

Spec == Init /\ [][Next]_vars

\* The last call of match_pattern has ended.
Finished == ctl.op = "idle" /\ verdict # "none"

\* Every call ends within MaxSteps steps: the stack stays small.
StepsSuffice == Len(stack) < 64

-----------------------------------------------------------------------------
(* Group numbering *)

\* The number of a group by the order of the opening parentheses of the full
\* pattern, for the group that opens at index glo.
OpenParenOrder(glo) == _count_capture_groups(SubSeq(pattern, 1, glo))

\* C1 as stated: on every search path, a group that is being matched writes
\* the capture slot numbered by the position of its opening parenthesis in
\* left-to-right order over the full pattern.
C1_SlotIsOpenParenOrder ==
    \A i \in 1..Len(stack) :
        stack[i].kind = "once" => stack[i].g = OpenParenOrder(stack[i].glo)

-----------------------------------------------------------------------------
(* Malformed patterns *)

RECURSIVE OpenAtEnd(_, _, _)
\* The number of groups still open at the end of p, scanning from index i
\* with depth groups open; an escaped character opens and closes nothing.
OpenAtEnd(p, i, depth) ==
    IF i > Len(p) THEN depth
    ELSE IF p[i] = "\\" THEN OpenAtEnd(p, i + 2, depth)
    ELSE IF p[i] = "(" THEN OpenAtEnd(p, i + 1, depth + 1)
    ELSE IF p[i] = ")" /\ depth > 0 THEN OpenAtEnd(p, i + 1, depth - 1)
    ELSE OpenAtEnd(p, i + 1, depth)

\* A "\" as the final character, a "[" with no "]" after it, or a "(" that
\* is not closed.
Malformed(p) ==
    \/ p # <<>> /\ p[Len(p)] = "\\"
    \/ \E i \in 1..Len(p) :
           /\ p[i] = "["
           /\ (i = 1 \/ p[i - 1] # "\\")
           /\ \A j \in (i + 1)..Len(p) : p[j] # "]"
    \/ OpenAtEnd(p, 1, 0) > 0

\* C2 as stated: on a malformed pattern every call of match_pattern aborts
\* with the malformed-pattern error and returns no verdict.
C2_MalformedAlwaysAborts ==
    (Finished /\ Malformed(pattern)) => verdict = "RuntimeError"

-----------------------------------------------------------------------------
(* The example (a+)b\1 *)

C3Pattern == Chars("(a+)b\\1")

\* C3 as stated: for the pattern (a+)b\1, match_pattern returns true on
\* aaabaaa and false on aaabaa.
C3_Original ==
    (Finished /\ pattern = C3Pattern) =>
        /\ input = Chars("aaabaaa") => verdict = "True"
        /\ input = Chars("aaabaa") => verdict = "False"

\* C3 amended: for the pattern (a+)b\1, match_pattern returns true on
\* aaabaaa, and true on aaabaa as well: the unanchored search finds aabaa
\* at offset 1.
C3_BothInputsMatch ==
    (Finished /\ pattern = C3Pattern /\ input \in {Chars("aaabaaa"), Chars("aaabaa")})
        => verdict = "True"

\* The call on aaabaa has ended with true, slot 1 holding aa.
C3_Witness ==
    /\ Finished
    /\ pattern = C3Pattern
    /\ input = Chars("aaabaa")
    /\ verdict = "True"
    /\ captures = <<Chars("aa")>>

-----------------------------------------------------------------------------
(* Quantifier monotonicity *)

\* The pattern is one expression followed by "+"; Fragment is the expression.
Fragment == SubSeq(pattern, 1, Len(pattern) - 1)

PlusOnFragment ==
    /\ Len(pattern) >= 2
    /\ pattern[Len(pattern)] = "+"
    /\ ~parse_expression(Fragment).err
    /\ parse_expression(Fragment).len = Len(Fragment)

\* The pattern is a single atom, not the anchor "^", followed by "+".
PlusOnAtom ==
    /\ PlusOnFragment
    /\ parse_expression(Fragment).type # "group"
    /\ Fragment # <<"^">>

\* The same input line on an engine for the fragment followed by "*".
StarMatches == MatchOnFresh(Fragment \o <<"*">>, input) = "True"

-----------------------------------------------------------------------------
(* Termination with a verdict *)

\* A "*" after a group, which the grammar does not support.
StarOnGroup(p) == \E i \in 1..(Len(p) - 1) : p[i] = ")" /\ p[i + 1] = "*"

\* A backreference \0, which the grammar does not have.
BackrefZero(p) == \E i \in 1..(Len(p) - 1) : p[i] = "\\" /\ p[i + 1] = "0"

\* A well-formed pattern of the supported grammar.
WellFormed(p) == ~Malformed(p) /\ ~StarOnGroup(p) /\ ~BackrefZero(p)

\* C5 as stated: for every well-formed pattern of the supported grammar and
\* every input, has_match ends with a boolean verdict.
C5_EndsWithVerdict ==
    (Finished /\ WellFormed(pattern)) => verdict \in {"True", "False"}

-----------------------------------------------------------------------------
(* Anchors *)

\* The pattern is "^" p "$" and p neither begins with "^" nor ends with "$";
\* AnchorBody is p.
AnchorBody == SubSeq(pattern, 2, Len(pattern) - 1)

FullyAnchored ==
    /\ Len(pattern) >= 2
    /\ pattern[1] = "^"
    /\ pattern[Len(pattern)] = "$"
    /\ AnchorBody = <<>> \/ (AnchorBody[1] # "^" /\ AnchorBody[Len(AnchorBody)] # "$")

\* match_inner(s, p, 0) on a fresh engine for p, its results consumed until
\* one has length |s|: "True" when there is one.
FullMatchFromZero(p, s) ==
    LET e == NewEngine(p)
        c == [e EXCEPT !.input = s,
                       !.captures = allocate_captures(@, e.num_capture_groups),
                       !.verdict = "running",
                       !.path = [k \in 1..e.num_capture_groups |-> None],
                       !.stack = <<[kind |-> "has_match", i |-> 0, results |-> 0,
                                    start_anchored |-> TRUE, end_anchored |-> TRUE,
                                    lo |-> 1, hi |-> Len(p),
                                    path |-> [k \in 1..e.num_capture_groups |-> None]]>>,
                       !.ctl = CallInner(0, 1, Len(p), 0, <<KAccept>>)]
    IN  Run(c).verdict

\* C6: for every pattern p that neither begins with "^" nor ends with "$"
\* and every input s, match_pattern(s, "^" p "$") is true if and only if
\* match_inner started at offset 0 of s enumerates a match of p of length
\* |s|; no starting offset other than 0 is tried.
C6_AnchoredIffFullMatch ==
    FullyAnchored =>
        /\ stack # <<>> => stack[1].i = 0
        /\ Finished => (verdict = "True" <=> FullMatchFromZero(AnchorBody, input) = "True")

\* ^(a|b)+$ has matched the line ab.
C6_Witness ==
    /\ Finished
    /\ FullyAnchored
    /\ pattern = Chars("^(a|b)+$")
    /\ input = Chars("ab")
    /\ verdict = "True"

-----------------------------------------------------------------------------
(* Independence of earlier calls *)

\* C7: on one engine the verdict for an input is the same whatever calls
\* were made before: it is the verdict of a fresh engine for the pattern.
C7_VerdictOfFreshEngine == Finished => verdict = MatchOnFresh(pattern, input)

\* ((a)b|\2) has not matched the line a after a call that matched and left
\* both slots set.
C7_Witness ==
    /\ Finished
    /\ pattern = Chars("((a)b|\\2)")
    /\ input = Chars("a")
    /\ previous = "True"
    /\ verdict = "False"

-----------------------------------------------------------------------------
(* Literal round trip *)

SpecialChars == {".", "\\", "[", "(", ")", "|", "+", "*", "?", "^", "$"}

\* C8: for every string s that contains none of the special characters, the
\* empty string included, match_pattern(s, s) is true.
C8_LiteralRoundTrip ==
    (Finished /\ input = pattern /\ \A i \in 1..Len(pattern) : pattern[i] \notin SpecialChars)
        => verdict = "True"

\* The pattern b] has matched the line b].
C8_Witness ==
    /\ Finished
    /\ pattern = Chars("b]")
    /\ input = pattern
    /\ verdict = "True"

-----------------------------------------------------------------------------
(* Path-local captures *)

\* The capture table with every slot unset.
AllUnset == [k \in 1..num_capture_groups |-> None]

-----------------------------------------------------------------------------
(* Greedy-first ordering *)

\* The activations of match_inner on the stack.
InnerFrames == {stack[i] : i \in {j \in 1..Len(stack) : stack[j].kind = "inner"}}

\* The least repetition count of an atom with quantifier quant.
LeastReps(quant) == IF quant = "+" THEN 1 ELSE 0

\* A quantified atom: the counts still to try go down by one from the count
\* on the current path to the least one.
AtomCountsDecrease ==
    \A f \in InnerFrames :
        f.st = "reps" =>
            /\ f.reps <= f.max
            /\ Len(f.todo) = f.reps - LeastReps(f.quant)
            /\ \A j \in 1..Len(f.todo) : f.todo[j] = f.reps - j

\* A group with "?": one repetition on the first path, none on the second.
OptionalGroupDecreases ==
    \A f \in InnerFrames :
        (f.group /\ f.quant = "?") =>
            \/ f.st = "opt" /\ f.reps = 1
            \/ f.st = "tail" /\ f.reps = 0

\* A group with "+": the result that match_plus_group is about to yield has
\* no more repetitions than the one it yielded before.
PlusGroupDecreases ==
    LET f == stack[Len(stack)]
    IN  (ctl.op = "ret" /\ stack # <<>> /\ f.kind = "after" /\ f.st = "more") =>
            \/ stack[f.root].reps = NoReps
            \/ f.reps <= stack[f.root].reps

\* Some result exists for the call in call, made with the capture table
\* table: the call is run with a consumer that takes the first result.
HasResult(call, table) ==
    Run([Config EXCEPT !.stack = <<[stack[1] EXCEPT !.start_anchored = TRUE,
                                                   !.end_anchored = FALSE]>>,
                       !.captures = table,
                       !.ctl = call]).verdict = "True"

\* The rest of the pattern of activation f matches after k repetitions.
RestMatchesAfter(f, k) ==
    HasResult(CallInner(f.pos + k, f.lo, f.hi, f.gc, <<KAccept>>), f.entry)

\* The group of activation f matches once and the rest of the pattern after.
OnceThenRestMatches(f) ==
    HasResult(CallOnce(f.pos, f.gc + 1, f.alts, f.gc + 1, f.elo,
                       <<KRest(f.lo, f.hi), KAccept>>), f.entry)

\* Activation f yields its first result in this state.
FirstYield(f) == ctl.op = "yield" /\ ctl.K = f.K /\ ~f.yielded

\* The first result of a quantified atom or of a group with "?" uses the
\* largest repetition count for which the rest of the pattern matches.
FirstResultIsLargest ==
    \A f \in InnerFrames :
        (f.quant # "" /\ ~(f.group /\ f.quant = "+") /\ FirstYield(f)) =>
            IF f.group
            THEN f.reps = 0 => ~OnceThenRestMatches(f)
            ELSE \A k \in (f.reps + 1)..f.max : ~RestMatchesAfter(f, k)

\* has_match receives the first result for (a+)a on aaaa.
C10FirstResult ==
    /\ pattern = Chars("(a+)a")
    /\ input = Chars("aaaa")
    /\ ctl.op = "yield"
    /\ ctl.K = <<KAccept>>
    /\ stack[1].i = 0
    /\ stack[1].results = 0

\* C10 as stated: for every quantified expression, "?", "*", "+" on an atom
\* and "?", "+" on a group, match_inner enumerates results in order of
\* decreasing repetition count, so that its first result uses the largest
\* count for which the rest of the pattern matches; for (a+)a on aaaa slot 1
\* holds aaa when the first result is yielded.
C10_Original ==
    /\ AtomCountsDecrease
    /\ OptionalGroupDecreases
    /\ PlusGroupDecreases
    /\ FirstResultIsLargest
    /\ C10FirstResult => captures[1] = Chars("aaa")

\* C10 amended: for "?", "*", "+" on an atom and "?" on a group, match_inner
\* tries the repetition counts in decreasing order, so that its first result
\* uses the largest count for which the rest of the pattern matches; for
\* (a+)a on aaaa slot 1 holds aaa when the first result is yielded.
C10_GreedyFirst ==
    /\ AtomCountsDecrease
    /\ OptionalGroupDecreases
    /\ FirstResultIsLargest
    /\ C10FirstResult => captures[1] = Chars("aaa")

\* The first result for (a+)a on aaaa is yielded with slot 1 holding aaa,
\* after a+ has given back one of its four repetitions.
C10_Witness ==
    /\ C10FirstResult
    /\ captures[1] = Chars("aaa")
    /\ \E f \in InnerFrames :
           f.quant = "+" /\ ~f.group /\ f.reps = 3 /\ f.max = 4 /\ f.yielded

-----------------------------------------------------------------------------
(* Backreferences to unset slots *)

\* The expression that the match_inner call in ctl parses first.
NextExpr == parse_expression(SubSeq(pattern, ctl.lo, ctl.hi))

\* match_inner is called on a pattern that begins with a backreference.
AtBackref ==
    /\ ctl.op = "inner"
    /\ ctl.lo <= ctl.hi
    /\ ~NextExpr.err
    /\ NextExpr.type = "backreference"

\* The pattern has no group numbered ref, or the slot of that group is unset.
NoGroupOrUnset(ref) ==
    \/ ref = 0
    \/ ref > num_capture_groups
    \/ captures[ref] = None

\* C11 as stated: for every backreference, a "\" followed by any digit, whose
\* slot is unset or whose group does not exist, match_inner yields no match
\* on that path and raises no error: the call is exhausted at once and the
\* match goes on.
C11_UnsetBackrefFailsQuietly ==
    (AtBackref /\ NoGroupOrUnset(NextExpr.ref)) =>
        /\ EnterInner(Config).ctl.op = "ret"
        /\ EnterInner(Config).verdict = "running"

-----------------------------------------------------------------------------
(* Stale captures *)

\* The slot the backreference reads: captures[ref_num - 1] in Python.
ReadSlot == IF NextExpr.ref = 0 THEN Len(captures) ELSE NextExpr.ref

\* The backreference that match_inner is about to handle succeeds: its slot
\* is set and the input goes on with the text in it.
BackrefSucceeds ==
    /\ AtBackref
    /\ ReadSlot \in 1..Len(captures)
    /\ captures[ReadSlot] # None
    /\ startswith(SubSeq(input, ctl.pos + 1, Len(input)), captures[ReadSlot])

\* has_match starts the attempt at a starting offset.
OffsetStarts == ctl.op = "inner" /\ Len(stack) = 1

\* C12 as stated: the attempt at each starting offset begins with the table
\* as a fresh all-unset table would be, and a backreference succeeds only on
\* a value that was written earlier on the same search path, never on one
\* written at an earlier offset or on an abandoned branch.
C12_NoStaleRead ==
    /\ OffsetStarts => captures = AllUnset
    /\ BackrefSucceeds => captures[ReadSlot] = path[ReadSlot]

-----------------------------------------------------------------------------
(* The slot of a group with "+" *)

\* The activations that follow a repetition of a group with "+": the body
\* of the loop of match_plus_group after one match of the group content.
Repetitions == {stack[i] : i \in {j \in 1..Len(stack) : stack[j].kind = "after"}}

\* match_plus_group yields in this state: the last repetition on the path,
\* number reps, has ended at input position end, the longer repetitions
\* have been tried and the table has been restored.
PlusYields ==
    LET f == stack[Len(stack)]
    IN  /\ ctl.op = "yield"
        /\ stack # <<>>
        /\ f.kind = "after"
        /\ f.st = "stop"
        /\ ctl.K = f.K
        /\ ctl.end = f.end

\* C13: every repetition of a group with "+" writes the slot numbered
\* group_counter + 1 of the match_inner call that parsed the group, and
\* whenever match_plus_group yields, the table is the one saved after the
\* last repetition on the path and the slot holds the text of that
\* repetition.
C13_SlotOfLastRepetition ==
    /\ \A f \in Repetitions : f.g = stack[f.root].gc + 1
    /\ PlusYields =>
           LET f == stack[Len(stack)]
           IN  /\ captures = f.captures_after_one
               /\ captures[f.g] = SubSeq(input, f.start + 1, f.end)

\* (a|b)+b on ab: the repetition a is yielded alone, with slot 1 holding a,
\* after the branch with the second repetition b has been exhausted.
C13_Witness ==
    /\ PlusYields
    /\ pattern = Chars("(a|b)+b")
    /\ input = Chars("ab")
    /\ stack[Len(stack)].reps = 1
    /\ stack[Len(stack)].start = 0
    /\ captures[1] = Chars("a")

====
